---- MODULE Spec2Model ----
(***************************************************************************)
(* Model of script.js, the browser client of cybershield-fastapi: the      *)
(* sessionStorage-backed session, the four views, and the register, login  *)
(* and scan handlers with their gateway calls in flight.                   *)
(*                                                                         *)
(* Strings that the code converts or parses (the stored user id, the       *)
(* stored email, the welcome text) are sequences of one-character strings; *)
(* strings the code only copies or concatenates (alert texts, gateway      *)
(* detail messages) are TLA+ strings.                                      *)
(***************************************************************************)
EXTENDS Integers, Sequences, FiniteSets

VARIABLES
    sessionStorage,   \* the tab's sessionStorage: a function from the keys present to strings
    display,          \* style.display of every .view element
    welcomeMessage,   \* textContent of #welcome-message
    urlInput,         \* value of #url-input
    urlScanResult,    \* innerHTML of #url-scan-result
    inflight,         \* the handler invocations suspended at their await, in issue order
    alertMsg,         \* text of the alert() the last handler step showed, "" if it showed none
    scopeChecked,     \* value of the checked input[name="scope"] radio
    fieldsDisplay,    \* style.display of #individual-fields and #enterprise-fields
    shownView,        \* history: the argument of the last call of showView
    lastOp            \* history: the handler step that produced this state

vars == <<sessionStorage, display, welcomeMessage, urlInput, urlScanResult,
          inflight, alertMsg, scopeChecked, fieldsDisplay, shownView, lastOp>>

----------------------------------------------------------------------------
(* Bounds of the model *)

\* handler invocations suspended at an await at the same time
MaxInFlight == 2

\* the users the gateway can answer a login with (id 0 and a two-digit id included)
LoginResults ==
    { [id |-> 0, email |-> <<"a", "@", "b">>],
      [id |-> 12, email |-> <<"c", "@", "d">>] }

\* what the user can have typed into #url-input
Urls == {"", "http://x"}

\* what the user can have typed into #login-email and #reg-email
TypedEmails == {"a@b"}

\* the values of the scope radios, which also name the field groups
Scopes == {"individual", "enterprise"}

\* the display the page's markup can give the two field groups
MarkupDisplays == [Scopes -> {"none", "block"}]

\* the detail messages of the gateway's error bodies ("" is a body without one)
Details == {"", "User not found"}

\* words in the overall_summary of a scan report under SpecRender
MaxWords == 3

----------------------------------------------------------------------------
(* JavaScript values *)

\* the result of parseInt on a string with no leading digit
NaN == -1

Digits == <<"0", "1", "2", "3", "4", "5", "6", "7", "8", "9">>

IsDigit(c) == \E d \in 1..10 : Digits[d] = c

DigitValue(c) == (CHOOSE d \in 1..10 : Digits[d] = c) - 1

\* String(n) for a non-negative integer, as setItem applies it to result.id
RECURSIVE ToString(_)
ToString(n) ==
    IF n < 10 THEN <<Digits[n + 1]>>
    ELSE ToString(n \div 10) \o <<Digits[(n % 10) + 1]>>

\* the value of the digits of s up to position k
RECURSIVE DigitsValue(_, _)
DigitsValue(s, k) ==
    IF k = 0 THEN 0 ELSE 10 * DigitsValue(s, k - 1) + DigitValue(s[k])

\* the length of the longest prefix of s made of digits
RECURSIVE DigitPrefix(_, _)
DigitPrefix(s, k) ==
    IF k < Len(s) /\ IsDigit(s[k + 1]) THEN DigitPrefix(s, k + 1) ELSE k

\* parseInt(s) for a string without sign or leading blanks
ParseInt(s) ==
    IF DigitPrefix(s, 0) = 0 THEN NaN ELSE DigitsValue(s, DigitPrefix(s, 0))

----------------------------------------------------------------------------
(* sessionStorage *)

UserIdKey == "currentUserId"
UserEmailKey == "currentUserEmail"

\* getItem: the stored string, or null for a key that is not there
Null == [present |-> FALSE, value |-> <<>>]

GetItem(store, key) ==
    IF key \in DOMAIN store THEN [present |-> TRUE, value |-> store[key]] ELSE Null

SetItem(store, key, value) ==
    [k \in (DOMAIN store) \cup {key} |-> IF k = key THEN value ELSE store[k]]

RemoveItem(store, key) ==
    [k \in (DOMAIN store) \ {key} |-> store[k]]

\* JavaScript truthiness of what getItem returned: null and "" are falsy
Truthy(item) == item.present /\ item.value # <<>>

EmptyStorage == [k \in {} |-> <<>>]

----------------------------------------------------------------------------
(* Views *)

HomeView == "home-view"
LoginView == "login-view"
RegistrationView == "registration-view"
DashboardView == "dashboard-view"

\* the elements of class .view of the page, by id: the four views the script
\* passes to showView
ViewIds == {HomeView, LoginView, RegistrationView, DashboardView}

\* showView without its first loop: the other views are left as they are
ShowViewNoHide(disp, viewId) ==
    IF viewId \in DOMAIN disp THEN [disp EXCEPT ![viewId] = "block"] ELSE disp

\* showView, lines 9-17: hide every .view, then show the requested one if it exists
ShowView(disp, viewId) ==
    LET hidden == [v \in DOMAIN disp |-> "none"]
    IN  IF viewId \in DOMAIN hidden
        THEN [hidden EXCEPT ![viewId] = "block"]
        ELSE hidden

WelcomePrefix == <<"W", "e", "l", "c", "o", "m", "e", ",", " ">>

\* showView, lines 20-26: the welcome text is rewritten only for the dashboard
\* and only from a truthy stored email
ShowViewWelcome(welcome, store, viewId) ==
    IF viewId = DashboardView /\ Truthy(GetItem(store, UserEmailKey))
    THEN WelcomePrefix \o GetItem(store, UserEmailKey).value
    ELSE welcome

\* goToDashboard without the session check
GoToDashboardUnchecked(store) == DashboardView

\* goToDashboard with the branches exchanged
GoToDashboardInverted(store) ==
    IF Truthy(GetItem(store, UserIdKey)) THEN LoginView ELSE DashboardView

\* goToDashboard: the view it passes to showView
GoToDashboard(store) ==
    IF Truthy(GetItem(store, UserIdKey)) THEN DashboardView ELSE LoginView

\* handleSignOut that forgets to remove the email
SignOutKeepsEmail(store) == RemoveItem(store, UserIdKey)

\* handleSignOut, lines 41-42
SignOutStorage(store) ==
    RemoveItem(RemoveItem(store, UserIdKey), UserEmailKey)

\* DOMContentLoaded, lines 242-246: the view shown on load
InitialView(store) ==
    IF Truthy(GetItem(store, UserIdKey)) THEN DashboardView ELSE HomeView

\* the views whose display is block
Visible == {v \in DOMAIN display : display[v] = "block"}

----------------------------------------------------------------------------
(* Gateway responses *)

\* data.details.virustotal and data.details.google_safe_browsing: whether the
\* report carries the section, and the field of it that styles the render
NoVirusTotal == [present |-> FALSE, malicious_count |-> 0]
NoSafeBrowsing == [present |-> FALSE, status |-> ""]

VirusTotal(count) == [present |-> TRUE, malicious_count |-> count]
SafeBrowsing(status) == [present |-> TRUE, status |-> status]

\* the body of a response that carries no scan report
NoData == [url |-> "", overall_summary |-> <<>>, virustotal |-> NoVirusTotal,
           google_safe_browsing |-> NoSafeBrowsing]

DangerWord == <<"D", "A", "N", "G", "E", "R">>
WarningWord == <<"W", "A", "R", "N", "I", "N", "G">>

\* the scan reports the gateway can answer with: the summary text, and which
\* of the two detail sections the report carries
ScanResults ==
    { [url |-> "http://x", overall_summary |-> DangerWord \o <<":", " ", "x">>,
       virustotal |-> VirusTotal(3), google_safe_browsing |-> NoSafeBrowsing],
      [url |-> "http://x", overall_summary |-> <<"C", "L", "E", "A", "N">>,
       virustotal |-> NoVirusTotal, google_safe_browsing |-> SafeBrowsing("SAFE")] }

\* fetch rejected: no response was obtained
FetchFailed ==
    [got |-> FALSE, status |-> 0, json |-> FALSE, detail |-> "",
     id |-> 0, email |-> <<>>, data |-> NoData]

\* a response whose body response.json() cannot parse (an empty body included)
Unparsable(st) ==
    [got |-> TRUE, status |-> st, json |-> FALSE, detail |-> "",
     id |-> 0, email |-> <<>>, data |-> NoData]

\* a response whose JSON body is an object with or without a detail message
JsonBody(st, d) ==
    [got |-> TRUE, status |-> st, json |-> TRUE, detail |-> d,
     id |-> 0, email |-> <<>>, data |-> NoData]

\* response.ok that takes every status below 500 for a success
OkBelow500(resp) == resp.status >= 200 /\ resp.status <= 499

\* response.ok
Ok(resp) == resp.status >= 200 /\ resp.status <= 299

ErrorResponses ==
    {FetchFailed, Unparsable(200), Unparsable(404)}
        \cup {JsonBody(404, d) : d \in Details}

RegisterResponses ==
    ErrorResponses \cup {JsonBody(200, "")}

LoginResponses ==
    ErrorResponses \cup
        {[got |-> TRUE, status |-> 200, json |-> TRUE, detail |-> "",
          id |-> r.id, email |-> r.email, data |-> NoData] : r \in LoginResults}

ScanResponses ==
    ErrorResponses \cup
        {[got |-> TRUE, status |-> 200, json |-> TRUE, detail |-> "",
          id |-> 0, email |-> <<>>, data |-> r] : r \in ScanResults}

\* a try block without the test of response.ok
OutcomeIgnoresStatus(resp) ==
    IF ~resp.got \/ ~resp.json THEN "caught" ELSE "ok"

\* how a handler's try block ends: fetch or response.json() threw, the
\* response was 2xx, or it was not
Outcome(resp) ==
    IF ~resp.got \/ ~resp.json THEN "caught"
    ELSE IF Ok(resp) THEN "ok"
    ELSE "rejected"

\* result.detail || fallback
DetailOr(resp, fallback) == IF resp.detail # "" THEN resp.detail ELSE fallback

----------------------------------------------------------------------------
(* The scan result area *)

\* String.prototype.includes
Includes(s, t) ==
    \E i \in 1..(Len(s) - Len(t) + 1) : SubSeq(s, i, i + Len(t) - 1) = t

\* what the page shows in #url-scan-result before any scan
InitialHtml ==
    [kind |-> "initial", class |-> "", text |-> "", details |-> <<>>, data |-> NoData]

\* a loading state that blanks the result area instead of announcing the scan
ScanningHtmlBlank == InitialHtml

\* line 157
ScanningHtml ==
    [kind |-> "scanning", class |-> "text-warning",
     text |-> "Scanning... This may take a moment.", details |-> <<>>, data |-> NoData]

\* displayScanResult, lines 200-224: the sections of the report that are
\* present, each with the class of its styled span
DetailsHtml(data) ==
    (IF data.virustotal.present
     THEN << [section |-> "VirusTotal Summary:",
              class |-> IF data.virustotal.malicious_count > 0
                        THEN "text-danger" ELSE "text-success"] >>
     ELSE <<>>)
    \o
    (IF data.google_safe_browsing.present
     THEN << [section |-> "Google Safe Browsing:",
              class |-> IF data.google_safe_browsing.status = "SAFE"
                        THEN "text-success" ELSE "text-danger"] >>
     ELSE <<>>)

\* displayScanResult that tests for WARNING before DANGER
DisplayScanResultWarningFirst(data, targetElement) ==
    [kind |-> "result",
     class |-> IF Includes(data.overall_summary, WarningWord) THEN "text-warning"
               ELSE IF Includes(data.overall_summary, DangerWord) THEN "text-danger"
               ELSE "text-success",
     text |-> "Scan Result for: " \o data.url,
     details |-> DetailsHtml(data),
     data |-> data]

\* displayScanResult: the status class from the summary, the sections, and
\* the report they are rendered from
DisplayScanResult(data, targetElement) ==
    [kind |-> "result",
     class |-> IF Includes(data.overall_summary, DangerWord) THEN "text-danger"
               ELSE IF Includes(data.overall_summary, WarningWord) THEN "text-warning"
               ELSE "text-success",
     text |-> "Scan Result for: " \o data.url,
     details |-> DetailsHtml(data),
     data |-> data]

\* handleUrlScan that keeps a report already on display instead of overwriting it
ScanOutcomeHtmlKeepFirst(resultDiv, resp) ==
    IF resultDiv.kind = "result" THEN resultDiv
    ELSE CASE Outcome(resp) = "ok" -> DisplayScanResult(resp.data, resultDiv)
           [] Outcome(resp) = "rejected" ->
                 [kind |-> "failed", class |-> "text-danger",
                  text |-> "Scan failed: " \o DetailOr(resp, "Server error."),
                  details |-> <<>>, data |-> NoData]
           [] OTHER ->
                 [kind |-> "noconnect", class |-> "text-danger",
                  text |-> "Failed to connect to API for scan.", details |-> <<>>, data |-> NoData]

\* handleUrlScan, lines 172-183: what the settled call writes into resultDiv
ScanOutcomeHtml(resultDiv, resp) ==
    CASE Outcome(resp) = "ok" -> DisplayScanResult(resp.data, resultDiv)
      [] Outcome(resp) = "rejected" ->
            [kind |-> "failed", class |-> "text-danger",
             text |-> "Scan failed: " \o DetailOr(resp, "Server error."),
             details |-> <<>>, data |-> NoData]
      [] OTHER ->
            [kind |-> "noconnect", class |-> "text-danger",
             text |-> "Failed to connect to API for scan.", details |-> <<>>, data |-> NoData]

\* handleUrlScan without the check of the session
ScanPreconditionUrlOnly(store, url) ==
    IF url = "" THEN "Please enter a URL to scan." ELSE ""

\* handleUrlScan, lines 145-153: the alert of the precondition that fails, "" if none does
ScanPrecondition(store, url) ==
    IF ~Truthy(GetItem(store, UserIdKey)) THEN "You must be logged in to perform a scan."
    ELSE IF url = "" THEN "Please enter a URL to scan."
    ELSE ""

----------------------------------------------------------------------------
(* Calls in flight *)

NoCall ==
    [kind |-> "none", scope |-> "", keys |-> {}, email |-> "", url |-> "",
     user_id |-> 0, overtaken |-> FALSE, signedOut |-> FALSE]

\* handleRegistration, lines 60-74: the keys of userData
UserDataKeys(scope) ==
    {"scope", "email"} \cup
        (IF scope = "individual" THEN {"first_name", "last_name", "mobile"}
         ELSE IF scope = "enterprise" THEN {"company_name", "company_website", "phone"}
         ELSE {})

RegisterCall(scope, email) ==
    [NoCall EXCEPT !.kind = "register", !.scope = scope,
                   !.keys = UserDataKeys(scope), !.email = email]

LoginCall(email) ==
    [NoCall EXCEPT !.kind = "login", !.email = email]

\* lines 166-169: the body of the scan request
ScanCall(url, userId) ==
    [NoCall EXCEPT !.kind = "scan", !.url = url, !.user_id = ParseInt(userId)]

\* the calls still in flight once call i has settled; a scan issued before a
\* scan that settles is marked as overtaken by it
Settle(calls, i) ==
    [j \in 1..(Len(calls) - 1) |->
        IF j < i
        THEN IF calls[j].kind = "scan" /\ calls[i].kind = "scan"
             THEN [calls[j] EXCEPT !.overtaken = TRUE]
             ELSE calls[j]
        ELSE calls[j + 1]]

\* the calls in flight across a sign-out: none is cancelled, each is marked
\* as having been in flight when the user signed out
AcrossSignOut(calls) ==
    [j \in DOMAIN calls |-> [calls[j] EXCEPT !.signedOut = TRUE]]

----------------------------------------------------------------------------
(* The handlers *)

\* handleLogin that stores the email of the session it replaces
LoginStorageStaleEmail(store, result) ==
    SetItem(SetItem(store, UserIdKey, ToString(result.id)),
            UserEmailKey,
            IF UserEmailKey \in DOMAIN store THEN store[UserEmailKey] ELSE result.email)

\* handleLogin, lines 123-124: setItem stores String(result.id) and the email
LoginStorage(store, result) ==
    SetItem(SetItem(store, UserIdKey, ToString(result.id)),
            UserEmailKey, result.email)

\* handleRegistration, lines 88-98: the alert that ends the call
RegistrationAlert(resp) ==
    CASE Outcome(resp) = "ok" ->
            "Registration successful! Please sign in with your email."
      [] Outcome(resp) = "rejected" ->
            "Registration failed: " \o DetailOr(resp, "An unknown error occurred.")
      [] OTHER ->
            "Could not connect to the backend server. Check the API URL and network connection."

\* handleLogin, lines 120-133: the alert that ends the call
LoginAlert(resp) ==
    CASE Outcome(resp) = "ok" -> "Login successful!"
      [] Outcome(resp) = "rejected" ->
            "Login failed: " \o DetailOr(resp, "Invalid email or user not found.")
      [] OTHER ->
            "Could not connect to the backend server. Check network connection."

\* a call of showView(viewId) that reads the session from store
Show(viewId, store) ==
    /\ display' = ShowView(display, viewId)
    /\ welcomeMessage' = ShowViewWelcome(welcomeMessage, store, viewId)
    /\ shownView' = viewId

\* a step that does not call showView
NoShow == UNCHANGED <<display, welcomeMessage, shownView>>

Did(op, call, resp) == lastOp' = [op |-> op, call |-> call, resp |-> resp]

\* lines 264-270: the change listener of the scope radios, for e.target.value
ChangeFields(value) ==
    IF value = "individual"
    THEN [g \in Scopes |-> IF g = "individual" THEN "block" ELSE "none"]
    ELSE [g \in Scopes |-> IF g = "individual" THEN "none" ELSE "block"]

\* lines 276-279: the field groups once the page has loaded with the radio
\* checked and the groups displayed as markup says
LoadFields(checked, markup) ==
    IF checked = "individual"
    THEN [g \in Scopes |-> IF g = "individual" THEN "block" ELSE "none"]
    ELSE markup

\* a step that touches neither the scope radios nor the field groups
NoScopeChange == UNCHANGED <<scopeChecked, fieldsDisplay>>

\* the user checks the other scope radio: its change event, lines 263-272
ChangeScope(value) ==
    /\ value # scopeChecked
    /\ scopeChecked' = value
    /\ fieldsDisplay' = ChangeFields(value)
    /\ Did("changeScope", NoCall, FetchFailed)
    /\ alertMsg' = ""
    /\ NoShow
    /\ UNCHANGED <<sessionStorage, urlInput, urlScanResult, inflight>>

\* click on #nav-sign-up, line 249
ClickSignUp ==
    /\ Show(RegistrationView, sessionStorage)
    /\ Did("navSignUp", NoCall, FetchFailed)
    /\ alertMsg' = ""
    /\ UNCHANGED <<sessionStorage, urlInput, urlScanResult, inflight>>
    /\ NoScopeChange

\* click on #nav-sign-in, line 250
ClickSignIn ==
    /\ Show(LoginView, sessionStorage)
    /\ Did("navSignIn", NoCall, FetchFailed)
    /\ alertMsg' = ""
    /\ UNCHANGED <<sessionStorage, urlInput, urlScanResult, inflight>>
    /\ NoScopeChange

\* click on #nav-dashboard: goToDashboard
ClickDashboard ==
    /\ Show(GoToDashboard(sessionStorage), sessionStorage)
    /\ Did("goToDashboard", NoCall, FetchFailed)
    /\ alertMsg' = ""
    /\ UNCHANGED <<sessionStorage, urlInput, urlScanResult, inflight>>
    /\ NoScopeChange

\* handleSignOut that also empties the scan result area
HandleSignOutResetsScan ==
    /\ sessionStorage' = SignOutStorage(sessionStorage)
    /\ alertMsg' = "You have been signed out."
    /\ Show(HomeView, sessionStorage')
    /\ inflight' = AcrossSignOut(inflight)
    /\ urlScanResult' = InitialHtml
    /\ Did("signOut", NoCall, FetchFailed)
    /\ UNCHANGED urlInput
    /\ NoScopeChange

\* click on #nav-sign-out: handleSignOut
HandleSignOut ==
    /\ sessionStorage' = SignOutStorage(sessionStorage)
    /\ alertMsg' = "You have been signed out."
    /\ Show(HomeView, sessionStorage')
    /\ inflight' = AcrossSignOut(inflight)
    /\ Did("signOut", NoCall, FetchFailed)
    /\ UNCHANGED <<urlInput, urlScanResult>>
    /\ NoScopeChange

\* the user edits #url-input
TypeUrl(u) ==
    /\ u # urlInput
    /\ urlInput' = u
    /\ Did("typeUrl", NoCall, FetchFailed)
    /\ alertMsg' = ""
    /\ NoShow
    /\ UNCHANGED <<sessionStorage, urlScanResult, inflight>>
    /\ NoScopeChange

\* handleRegistration up to its await of fetch
HandleRegistration(scope, email) ==
    /\ Len(inflight) < MaxInFlight
    /\ inflight' = Append(inflight, RegisterCall(scope, email))
    /\ Did("submitRegistration", RegisterCall(scope, email), FetchFailed)
    /\ alertMsg' = ""
    /\ NoShow
    /\ UNCHANGED <<sessionStorage, urlInput, urlScanResult>>
    /\ NoScopeChange

\* handleRegistration from the await on, for the response resp
RegistrationDone(i, resp) ==
    /\ inflight[i].kind = "register"
    /\ inflight' = Settle(inflight, i)
    /\ alertMsg' = RegistrationAlert(resp)
    /\ IF Outcome(resp) = "ok"
       THEN Show(LoginView, sessionStorage)
       ELSE NoShow
    /\ Did("registrationDone", inflight[i], resp)
    /\ UNCHANGED <<sessionStorage, urlInput, urlScanResult>>
    /\ NoScopeChange

\* handleLogin up to its await of fetch
HandleLogin(email) ==
    /\ Len(inflight) < MaxInFlight
    /\ inflight' = Append(inflight, LoginCall(email))
    /\ Did("submitLogin", LoginCall(email), FetchFailed)
    /\ alertMsg' = ""
    /\ NoShow
    /\ UNCHANGED <<sessionStorage, urlInput, urlScanResult>>
    /\ NoScopeChange

\* handleLogin that drops the response of a call the user signed out of
LoginDoneUnlessSignedOut(i, resp) ==
    /\ inflight[i].kind = "login"
    /\ inflight' = Settle(inflight, i)
    /\ alertMsg' = LoginAlert(resp)
    /\ IF Outcome(resp) = "ok" /\ ~inflight[i].signedOut
       THEN /\ sessionStorage' = LoginStorage(sessionStorage, resp)
            /\ Show(GoToDashboard(sessionStorage'), sessionStorage')
       ELSE NoShow /\ UNCHANGED sessionStorage
    /\ Did("loginDone", inflight[i], resp)
    /\ UNCHANGED <<urlInput, urlScanResult>>
    /\ NoScopeChange

\* handleLogin from the await on, for the response resp
LoginDone(i, resp) ==
    /\ inflight[i].kind = "login"
    /\ inflight' = Settle(inflight, i)
    /\ alertMsg' = LoginAlert(resp)
    /\ IF Outcome(resp) = "ok"
       THEN /\ sessionStorage' = LoginStorage(sessionStorage, resp)
            /\ Show(GoToDashboard(sessionStorage'), sessionStorage')
       ELSE NoShow /\ UNCHANGED sessionStorage
    /\ Did("loginDone", inflight[i], resp)
    /\ UNCHANGED <<urlInput, urlScanResult>>
    /\ NoScopeChange

\* handleUrlScan up to its await of fetch, or to the return of a failed precondition
HandleUrlScan ==
    LET abort == ScanPrecondition(sessionStorage, urlInput)
        call == ScanCall(urlInput, GetItem(sessionStorage, UserIdKey).value)
    IN  IF abort # ""
        THEN /\ alertMsg' = abort
             /\ Did("submitScan", NoCall, FetchFailed)
             /\ NoShow
             /\ UNCHANGED <<sessionStorage, urlInput, urlScanResult, inflight>>
             /\ NoScopeChange
        ELSE /\ Len(inflight) < MaxInFlight
             /\ urlScanResult' = ScanningHtml
             /\ inflight' = Append(inflight, call)
             /\ Did("submitScan", call, FetchFailed)
             /\ alertMsg' = ""
             /\ NoShow
             /\ UNCHANGED <<sessionStorage, urlInput>>
             /\ NoScopeChange

\* handleUrlScan that drops the response of a call the user signed out of
ScanDoneUnlessSignedOut(i, resp) ==
    /\ inflight[i].kind = "scan"
    /\ inflight' = Settle(inflight, i)
    /\ urlScanResult' = IF inflight[i].signedOut THEN urlScanResult
                        ELSE ScanOutcomeHtml(urlScanResult, resp)
    /\ urlInput' = IF Outcome(resp) = "ok" /\ ~inflight[i].signedOut THEN "" ELSE urlInput
    /\ alertMsg' = ""
    /\ Did("scanDone", inflight[i], resp)
    /\ NoShow
    /\ UNCHANGED sessionStorage
    /\ NoScopeChange

\* handleUrlScan from the await on, for the response resp
ScanDone(i, resp) ==
    /\ inflight[i].kind = "scan"
    /\ inflight' = Settle(inflight, i)
    /\ urlScanResult' = ScanOutcomeHtml(urlScanResult, resp)
    /\ urlInput' = IF Outcome(resp) = "ok" THEN "" ELSE urlInput
    /\ alertMsg' = ""
    /\ Did("scanDone", inflight[i], resp)
    /\ NoShow
    /\ UNCHANGED sessionStorage
    /\ NoScopeChange

----------------------------------------------------------------------------
(* The specification *)

\* the sessionStorage the page can load with: empty, or the session a login
\* stored before the tab was reloaded
LoadedStorages ==
    {EmptyStorage} \cup
        {LoginStorage(EmptyStorage, r) : r \in LoginResults}

\* the state once the DOMContentLoaded handler has run, on a page that loads
\* with the individual radio checked
Init ==
    /\ sessionStorage \in LoadedStorages
    /\ scopeChecked = "individual"
    /\ \E markup \in MarkupDisplays : fieldsDisplay = LoadFields(scopeChecked, markup)
    /\ display = ShowView([v \in ViewIds |-> "none"], InitialView(sessionStorage))
    /\ welcomeMessage = ShowViewWelcome(<<>>, sessionStorage, InitialView(sessionStorage))
    /\ shownView = InitialView(sessionStorage)
    /\ urlInput = ""
    /\ urlScanResult = InitialHtml
    /\ inflight = <<>>
    /\ alertMsg = ""
    /\ lastOp = [op |-> "load", call |-> NoCall, resp |-> FetchFailed]

\* the steps of a user who leaves the scope radios as the page loaded them;
\* SpecScope has the steps that change them
Next ==
    \/ ClickSignUp
    \/ ClickSignIn
    \/ ClickDashboard
    \/ HandleSignOut
    \/ \E u \in Urls : TypeUrl(u)
    \/ \E email \in TypedEmails : HandleRegistration(scopeChecked, email)
    \/ \E i \in DOMAIN inflight, resp \in RegisterResponses : RegistrationDone(i, resp)
    \/ \E email \in TypedEmails : HandleLogin(email)
    \/ \E i \in DOMAIN inflight, resp \in LoginResponses : LoginDone(i, resp)
    \/ HandleUrlScan
    \/ \E i \in DOMAIN inflight, resp \in ScanResponses : ScanDone(i, resp)

Spec == Init /\ [][Next]_vars

----------------------------------------------------------------------------
(* The rendering of scan reports: one scan in flight, answered with any report *)

CleanWord == <<"C", "L", "E", "A", "N">>

Vocabulary == {DangerWord, WarningWord, CleanWord}

\* the summaries, as lists of up to MaxWords words
WordLists == UNION {[1..n -> Vocabulary] : n \in 0..MaxWords}

\* the text of a summary: its words, separated by blanks
RECURSIVE Join(_)
Join(ws) ==
    IF ws = <<>> THEN <<>>
    ELSE IF Len(ws) = 1 THEN ws[1]
    ELSE ws[1] \o <<" ">> \o Join(Tail(ws))

\* the reports the gateway can answer the scan with: any summary, with or
\* without each section, clean or flagged
RenderInputs ==
    { [url |-> "http://x", overall_summary |-> Join(ws),
       virustotal |-> vt, google_safe_browsing |-> gsb] :
        ws \in WordLists,
        vt \in {NoVirusTotal, VirusTotal(0), VirusTotal(3)},
        gsb \in {NoSafeBrowsing, SafeBrowsing("SAFE"), SafeBrowsing("UNSAFE")} }

RenderResponses ==
    {[got |-> TRUE, status |-> 200, json |-> TRUE, detail |-> "",
      id |-> 0, email |-> <<>>, data |-> r] : r \in RenderInputs}

\* a signed-in user has submitted a scan of http://x
RenderInit ==
    /\ sessionStorage \in LoadedStorages \ {EmptyStorage}
    /\ scopeChecked = "individual"
    /\ \E markup \in MarkupDisplays : fieldsDisplay = LoadFields(scopeChecked, markup)
    /\ display = ShowView([v \in ViewIds |-> "none"], InitialView(sessionStorage))
    /\ welcomeMessage = ShowViewWelcome(<<>>, sessionStorage, InitialView(sessionStorage))
    /\ shownView = InitialView(sessionStorage)
    /\ urlInput = "http://x"
    /\ urlScanResult = ScanningHtml
    /\ inflight = <<ScanCall("http://x", GetItem(sessionStorage, UserIdKey).value)>>
    /\ alertMsg = ""
    /\ lastOp = [op |-> "submitScan", call |-> inflight[1], resp |-> FetchFailed]

RenderNext ==
    \E i \in DOMAIN inflight, resp \in RenderResponses : ScanDone(i, resp)

SpecRender == RenderInit /\ [][RenderNext]_vars

----------------------------------------------------------------------------
(* The registration form: its scope radios and field groups, from any load *)

\* the state once the DOMContentLoaded handler has run, whichever radio the
\* page loads with and however its markup displays the field groups
ScopeInit ==
    /\ sessionStorage \in LoadedStorages
    /\ scopeChecked \in Scopes
    /\ \E markup \in MarkupDisplays : fieldsDisplay = LoadFields(scopeChecked, markup)
    /\ display = ShowView([v \in ViewIds |-> "none"], InitialView(sessionStorage))
    /\ welcomeMessage = ShowViewWelcome(<<>>, sessionStorage, InitialView(sessionStorage))
    /\ shownView = InitialView(sessionStorage)
    /\ urlInput = ""
    /\ urlScanResult = InitialHtml
    /\ inflight = <<>>
    /\ alertMsg = ""
    /\ lastOp = [op |-> "load", call |-> NoCall, resp |-> FetchFailed]

ScopeNext ==
    \/ ClickSignUp
    \/ ClickSignIn
    \/ \E value \in Scopes : ChangeScope(value)
    \/ \E email \in TypedEmails : HandleRegistration(scopeChecked, email)
    \/ \E i \in DOMAIN inflight, resp \in RegisterResponses : RegistrationDone(i, resp)

SpecScope == ScopeInit /\ [][ScopeNext]_vars

----------------------------------------------------------------------------
(* The session and the view, as the claims speak of them *)

\* a session field is present when getItem returns a truthy string, absent
\* when it returns null
Present(key) == Truthy(GetItem(sessionStorage, key))
Absent(key) == GetItem(sessionStorage, key) = Null

\* Session.userId as the scan request reads it (line 168)
SessionUserId == ParseInt(GetItem(sessionStorage, UserIdKey).value)
SessionUserEmail == GetItem(sessionStorage, UserEmailKey).value

\* the last step processed the gateway's answer to a call
Settled(op) == lastOp.op = op
SettledOk(op) == lastOp.op = op /\ Outcome(lastOp.resp) = "ok"

----------------------------------------------------------------------------
(* Claims *)

\* C1: in every reachable state, if the dashboard is the visible view then
\* Session.userId is present.
C1_DashboardOnlyWithSession ==
    DashboardView \in Visible => Present(UserIdKey)

\* the dashboard is on display after a click on the dashboard button while a
\* call is still in flight
C1_Witness ==
    /\ lastOp.op = "goToDashboard"
    /\ Visible = {DashboardView}
    /\ inflight # <<>>

\* C2: in every reachable state, Session.userId and Session.userEmail are
\* both present or both absent.
C2_SessionFieldsTogether ==
    \/ Present(UserIdKey) /\ Present(UserEmailKey)
    \/ Absent(UserIdKey) /\ Absent(UserEmailKey)

\* a login has succeeded while another login is still in flight
C2_Witness ==
    /\ SettledOk("loginDone")
    /\ Present(UserIdKey) /\ Present(UserEmailKey)
    /\ \E k \in DOMAIN inflight : inflight[k].kind = "login"

\* C3: once a 2xx login response with body {id, email} has been processed,
\* the session is {userId: id, userEmail: email} and the dashboard is the
\* visible view.
C3_LoginSuccess ==
    SettledOk("loginDone") =>
        /\ Present(UserIdKey) /\ SessionUserId = lastOp.resp.id
        /\ Present(UserEmailKey) /\ SessionUserEmail = lastOp.resp.email
        /\ Visible = {DashboardView}

\* the login answered with id 12 has been processed
C3_Witness ==
    /\ SettledOk("loginDone")
    /\ lastOp.resp.id = 12
    /\ SessionUserId = 12
    /\ Visible = {DashboardView}

\* C4: a login whose response is HTTP 404 with no body leaves the session and
\* the visible view unchanged and notifies with the generic rejection message
\* of the login, not the connectivity message.
C4_Login404NoBody ==
    [][ (lastOp'.op = "loginDone" /\ lastOp'.resp = Unparsable(404)) =>
            /\ sessionStorage' = sessionStorage
            /\ display' = display
            /\ alertMsg' = "Login failed: Invalid email or user not found." ]_vars

\* the notification of the call the last step settled: an alert for a
\* registration or a login, the result area for a scan
Notification == IF lastOp.op = "scanDone" THEN urlScanResult.text ELSE alertMsg

ConnectivityMessages ==
    { "Could not connect to the backend server. Check the API URL and network connection.",
      "Could not connect to the backend server. Check network connection.",
      "Failed to connect to API for scan." }

RejectionMessages ==
    { prefix \o d :
        prefix \in {"Registration failed: ", "Login failed: ", "Scan failed: "},
        d \in (Details \ {""}) \cup {"An unknown error occurred.",
                                      "Invalid email or user not found.",
                                      "Server error."} }

\* C5: for register, login and scan, the connectivity notification is
\* produced exactly when no response was obtained, and the rejection
\* notification exactly when the gateway responded with a non-2xx status.
C5_ConnectivityOnlyWithoutResponse ==
    lastOp.op \in {"registrationDone", "loginDone", "scanDone"} =>
        /\ (Notification \in ConnectivityMessages) <=> ~lastOp.resp.got
        /\ (Notification \in RejectionMessages) <=>
                (lastOp.resp.got /\ ~Ok(lastOp.resp))

LocalScanAlerts ==
    {"You must be logged in to perform a scan.", "Please enter a URL to scan."}

\* C6: a scan submitted while Session.userId is absent, or with an empty url,
\* issues no network call, shows only a local alert and leaves the result
\* area, the session and the view unchanged; and no scan request in flight
\* lacks a user id or a url.
C6_ScanPreconditionAbort ==
    [][ /\ (lastOp'.op = "submitScan" /\ (~Present(UserIdKey) \/ urlInput = "")) =>
            /\ inflight' = inflight
            /\ alertMsg' \in LocalScanAlerts
            /\ urlScanResult' = urlScanResult
            /\ sessionStorage' = sessionStorage
            /\ display' = display
        /\ \A k \in DOMAIN inflight' :
            inflight'[k].kind = "scan" =>
                inflight'[k].user_id # NaN /\ inflight'[k].url # "" ]_vars

\* submitScan("http://x") without a session has just been refused
C6_Witness ==
    /\ lastOp.op = "submitScan"
    /\ urlInput = "http://x"
    /\ ~Present(UserIdKey)
    /\ alertMsg = "You must be logged in to perform a scan."
    /\ inflight = <<>>

\* C7: when a scan response has been processed, the result area shows that
\* response, also when the call was issued before a scan that settled
\* earlier: the last response processed wins, not the last call issued.
C7_LastResolvedScanWins ==
    Settled("scanDone") =>
        CASE Outcome(lastOp.resp) = "ok" ->
                urlScanResult.kind = "result" /\ urlScanResult.data = lastOp.resp.data
          [] Outcome(lastOp.resp) = "rejected" -> urlScanResult.kind = "failed"
          [] OTHER -> urlScanResult.kind = "noconnect"

\* the first-issued of two overlapping scans has settled after the second,
\* and its report is on display
C7_Witness ==
    /\ SettledOk("scanDone")
    /\ lastOp.call.overtaken
    /\ urlScanResult.kind = "result"
    /\ urlScanResult.data = lastOp.resp.data

\* C8: after signOut, Session.userId and Session.userEmail are both absent
\* and the visible view is home.
C8_SignOut ==
    lastOp.op = "signOut" =>
        /\ Absent(UserIdKey) /\ Absent(UserEmailKey)
        /\ Visible = {HomeView}

\* the user has signed out while a login was in flight
C8_Witness ==
    /\ lastOp.op = "signOut"
    /\ Visible = {HomeView}
    /\ \E k \in DOMAIN inflight : inflight[k].kind = "login"

\* C9: goToDashboard shows the dashboard if Session.userId is present when it
\* is called and the login view otherwise, and does not modify the session:
\* on a click of the dashboard button, and at the end of a successful login,
\* where it is called after the session has been stored.
C9_GoToDashboard ==
    [][ /\ lastOp'.op = "goToDashboard" =>
            /\ Visible' = IF Present(UserIdKey) THEN {DashboardView} ELSE {LoginView}
            /\ sessionStorage' = sessionStorage
        /\ (lastOp'.op = "loginDone" /\ Outcome(lastOp'.resp) = "ok") =>
            Visible' = IF Present(UserIdKey)' THEN {DashboardView} ELSE {LoginView} ]_vars

\* goToDashboard without a session has redirected to the login view
C9_Witness ==
    /\ lastOp.op = "goToDashboard"
    /\ ~Present(UserIdKey)
    /\ Visible = {LoginView}

\* C10: after any sequence of showView calls, the view of the last call is
\* visible and every other view is hidden.
C10_ExactlyOneViewVisible ==
    \A v \in ViewIds : display[v] = IF v = shownView THEN "block" ELSE "none"

\* the registration view replaced an earlier view and was replaced in turn
\* by the login view
C10_Witness ==
    /\ lastOp.op = "registrationDone"
    /\ shownView = LoginView
    /\ Visible = {LoginView}

\* the gateway answered the call with a 2xx status and a body that parses
Success(resp) == resp.got /\ resp.json /\ resp.status \in 200..299

\* the gateway did not answer the call, or answered with a non-2xx status
Failure(resp) == ~resp.got \/ resp.status \notin 200..299

DoneOps == {"registrationDone", "loginDone", "scanDone"}

\* C11: the session is written only by the success path of a login and by
\* signOut; navigation, goToDashboard, registration, scan and failed logins
\* leave Session.userId and Session.userEmail unchanged.
C11_SessionWriters ==
    [][ sessionStorage' # sessionStorage =>
            \/ lastOp'.op = "signOut"
            \/ lastOp'.op = "loginDone" /\ Success(lastOp'.resp) ]_vars

\* a login has been rejected while a session exists
C11_Witness ==
    /\ lastOp.op = "loginDone"
    /\ lastOp.resp.got /\ lastOp.resp.status = 404
    /\ Present(UserIdKey) /\ Present(UserEmailKey)

\* C12: a register, login or scan call that ends in a rejection (non-2xx) or
\* a connectivity failure leaves the session and the visible view as they
\* were; it only produces an alert (register, login) or an inline message in
\* the result area (scan).
C12_FailureLeavesStateUnchanged ==
    [][ (lastOp'.op \in DoneOps /\ Failure(lastOp'.resp)) =>
            /\ sessionStorage' = sessionStorage
            /\ display' = display
            /\ welcomeMessage' = welcomeMessage
            /\ urlInput' = urlInput
            /\ IF lastOp'.op = "scanDone"
               THEN alertMsg' = "" /\ urlScanResult'.kind \in {"failed", "noconnect"}
               ELSE alertMsg' # "" /\ urlScanResult' = urlScanResult ]_vars

\* a registration has been rejected with a detail message while the
\* registration view was on display
C12_Witness ==
    /\ lastOp.op = "registrationDone"
    /\ lastOp.resp.got /\ lastOp.resp.status = 404 /\ lastOp.resp.detail # ""
    /\ alertMsg = "Registration failed: User not found"
    /\ Visible = {RegistrationView}

\* C13: a scan call that passes its precondition writes the scanning
\* placeholder in the step that issues its request, and a scan call renders
\* its outcome only after it was issued: no outcome is rendered for a call
\* whose placeholder was not written earlier.
C13_PlaceholderBeforeOutcome ==
    [][ /\ (lastOp'.op = "submitScan" /\ lastOp'.call.kind = "scan") =>
                /\ urlScanResult'.kind = "scanning"
                /\ inflight' = Append(inflight, lastOp'.call)
        /\ (Len(inflight') > Len(inflight) /\ inflight'[Len(inflight')].kind = "scan") =>
                /\ lastOp'.op = "submitScan"
                /\ urlScanResult'.kind = "scanning"
        /\ lastOp'.op = "scanDone" =>
                /\ \E i \in DOMAIN inflight :
                        inflight[i] = lastOp'.call /\ inflight[i].kind = "scan"
                /\ urlScanResult'.kind \in {"result", "failed", "noconnect"} ]_vars

\* the error render of a scan has replaced the placeholder of that scan
C13_Witness ==
    /\ lastOp.op = "scanDone"
    /\ lastOp.call.kind = "scan"
    /\ urlScanResult.kind = "failed"
    /\ inflight = <<>>

\* C14: the url input is cleared when a scan response is processed as a
\* success and only then: a rejected or failed scan keeps its content, and no
\* other handler step (a precondition abort included) writes it.
C14_InputClearedOnSuccessOnly ==
    [][ /\ lastOp'.op = "scanDone" =>
                urlInput' = IF Success(lastOp'.resp) THEN "" ELSE urlInput
        /\ lastOp'.op \notin {"scanDone", "typeUrl"} => urlInput' = urlInput ]_vars

\* a successful scan has cleared the input
C14_Witness ==
    /\ lastOp.op = "scanDone"
    /\ Success(lastOp.resp)
    /\ lastOp.call.url = "http://x"
    /\ urlInput = ""

\* C15: while no scan is submitted or settled, the scanning placeholder stays
\* in the result area: no navigation, sign-out, login or registration step
\* replaces it, and the page has no timeout that would.
C15_PlaceholderStays ==
    [][ (urlScanResult.kind = "scanning" /\ lastOp'.op \notin {"submitScan", "scanDone"})
            => urlScanResult' = urlScanResult ]_vars

\* the placeholder of a scan still in flight is on display after the user
\* has signed out
C15_Witness ==
    /\ urlScanResult.kind = "scanning"
    /\ lastOp.op = "signOut"
    /\ \E k \in DOMAIN inflight : inflight[k].kind = "scan" /\ inflight[k].signedOut

\* store holds the id and the email of one and the same login result
HoldsSession(store, r) ==
    /\ Truthy(GetItem(store, UserIdKey))
    /\ ParseInt(GetItem(store, UserIdKey).value) = r.id
    /\ Truthy(GetItem(store, UserEmailKey))
    /\ GetItem(store, UserEmailKey).value = r.email

\* store holds neither field
HoldsNoSession(store) ==
    GetItem(store, UserIdKey) = Null /\ GetItem(store, UserEmailKey) = Null

SessionOf(r) == HoldsSession(sessionStorage, r)

\* C18: under any interleaving of logins and sign-outs the session is empty
\* or holds the id and the email of one login response, the last successful
\* one processed since the last sign-out: a successful login replaces both
\* fields by its own, a sign-out empties both, no other step writes either.
C18_SessionFromOneResponse ==
    [][ /\ \/ HoldsNoSession(sessionStorage')
           \/ \E r \in LoginResults : HoldsSession(sessionStorage', r)
        /\ (lastOp'.op = "loginDone" /\ Success(lastOp'.resp)) =>
                HoldsSession(sessionStorage',
                             [id |-> lastOp'.resp.id, email |-> lastOp'.resp.email])
        /\ lastOp'.op = "signOut" => HoldsNoSession(sessionStorage')
        /\ ~(lastOp'.op = "signOut" \/ (lastOp'.op = "loginDone" /\ Success(lastOp'.resp)))
                => sessionStorage' = sessionStorage ]_vars

\* the first of two overlapping logins has been answered with user 0 while
\* the second is still in flight
C18_Witness ==
    /\ lastOp.op = "loginDone" /\ Success(lastOp.resp)
    /\ lastOp.resp.id = 0
    /\ SessionOf([id |-> 0, email |-> <<"a", "@", "b">>])
    /\ \E k \in DOMAIN inflight : inflight[k].kind = "login"

\* C19: a sign-out does not cancel a login in flight: when the 2xx response
\* of a login submitted before the sign-out is processed after it, the
\* session is populated from that response and the dashboard is shown.
C19_SignOutKeepsLoginInFlight ==
    (lastOp.op = "loginDone" /\ Success(lastOp.resp) /\ lastOp.call.signedOut) =>
        /\ SessionOf([id |-> lastOp.resp.id, email |-> lastOp.resp.email])
        /\ Visible = {DashboardView}

\* the response of a login submitted before a sign-out has logged the user
\* in again, and it was the only login in flight
C19_Witness ==
    /\ lastOp.op = "loginDone" /\ Success(lastOp.resp)
    /\ lastOp.call.signedOut
    /\ Present(UserIdKey)
    /\ Visible = {DashboardView}
    /\ inflight = <<>>

\* C20: the scan result area is written only by the steps of a scan call
\* that passed its precondition (placeholder, success render, error render);
\* a scan in flight at a sign-out still renders its response when it settles.
C20_ResultAreaWriters ==
    [][ /\ urlScanResult' # urlScanResult =>
                \/ lastOp'.op = "submitScan" /\ lastOp'.call.kind = "scan"
                \/ lastOp'.op = "scanDone"
        /\ (lastOp'.op = "scanDone" /\ lastOp'.call.signedOut) =>
                IF Success(lastOp'.resp)
                THEN urlScanResult'.kind = "result" /\ urlScanResult'.data = lastOp'.resp.data
                ELSE urlScanResult'.kind \in {"failed", "noconnect"} ]_vars

\* the report of a scan that was in flight at a sign-out is on display, with
\* no session
C20_Witness ==
    /\ lastOp.op = "scanDone" /\ Success(lastOp.resp)
    /\ lastOp.call.signedOut
    /\ urlScanResult.kind = "result"
    /\ Absent(UserIdKey)

\* the class the summary made of the words ws is to be rendered with
ExpectedClass(ws) ==
    IF \E k \in DOMAIN ws : ws[k] = DangerWord THEN "text-danger"
    ELSE IF \E k \in DOMAIN ws : ws[k] = WarningWord THEN "text-warning"
    ELSE "text-success"

\* C16: the rendered style is danger whenever the summary contains DANGER
\* (also next to WARNING), warning when it contains WARNING and not DANGER,
\* success otherwise, whatever the VirusTotal count and the Safe Browsing
\* status of the report are.
C16_ClassByPriority ==
    (lastOp.op = "scanDone" /\ Success(lastOp.resp)) =>
        /\ urlScanResult.kind = "result"
        /\ \A ws \in WordLists :
              Join(ws) = lastOp.resp.data.overall_summary =>
                  urlScanResult.class = ExpectedClass(ws)

\* a report whose summary is "WARNING DANGER", with no malicious flag and a
\* SAFE browsing status, is rendered as danger
C16_Witness ==
    /\ lastOp.op = "scanDone" /\ Success(lastOp.resp)
    /\ lastOp.resp.data.overall_summary = Join(<<WarningWord, DangerWord>>)
    /\ lastOp.resp.data.virustotal = VirusTotal(0)
    /\ lastOp.resp.data.google_safe_browsing = SafeBrowsing("SAFE")
    /\ urlScanResult.class = "text-danger"

\* the field group g is shown
Shown(g) == fieldsDisplay[g] # "none"

\* C17: after the page has loaded, whichever radio is checked, and after any
\* scope changes, exactly one field group is shown: that of the checked radio.
C17_FieldsMirrorScope ==
    \A g \in Scopes : Shown(g) <=> (g = scopeChecked)

====
